---- MODULE Spec2Model ----
(***************************************************************************)
(* MicroserviceORM (koa-microservice-typeorm): the connection guardian.    *)
(* One guardian instance, its connection handle, its health cache, and     *)
(* the four entry points the host and the application invoke: connect      *)
(* (startup hook), close (shutdown hook), healthCheck (probe hook) and     *)
(* getConnection (application code), with the synchronous                 *)
(* setConnectionOptions.  Every await of the source is a                   *)
(* suspension point: the calls of different callers interleave there.      *)
(* The connection provider (typeorm) is opaque: the outcome of each of its *)
(* calls is a nondeterministic input within the type the call declares:    *)
(* createConnection resolves with a Connection, connected or not, or       *)
(* rejects.  PairSpec runs two guardians that differ in connectionRequired *)
(* only, on the same calls and provider outcomes: a call or resumption is  *)
(* one step of each in turn, a synchronous setter is one step of both.     *)
(***************************************************************************)
EXTENDS Integers, FiniteSets, Sequences, TLC

\* ------------------------------------------------------------------ bounds
\* handles the provider can hand out in one run
MaxHandles == 2
\* calls that may be suspended at an await at the same time
MaxInFlight == 2
\* the clock stops here (milliseconds)
MaxTime == 15001
\* rows a health query can return
MaxRows == 1
\* replica hosts a configuration can list
MaxSlaves == 2

\* ------------------------------------------------------- program constants
\* healthCheckInterval: number = 15000
DefaultHealthCheckInterval == 15000
\* connectionAttemptInterval: number = 15000 (stored, read by no method)
DefaultConnectionAttemptInterval == 15000
\* connection: Connection | null, this.connection = null
Null == 0
\* _lastHealthCheck: Date | null = null
NoDate == -1

\* a healthCheckInterval a caller may pass to the constructor (0: not passed)
SuppliedIntervals == {0, DefaultHealthCheckInterval + 1}
\* the clock advances by one of these amounts
Deltas == {DefaultHealthCheckInterval, DefaultHealthCheckInterval + 1}

\* the host's hooks (bindTo) and the application code that holds the guardian
Callers == {"startup", "shutdown", "probe", "app"}

VARIABLES
    app,                        \* this.app is set (a host was given to the constructor)
    opts,                       \* the constructor options that no field keeps
    connectionRequired,
    unhealthyWithoutConnection,
    healthCheckInterval,
    connectionOptions,          \* _connectionOptions is set
    connectionName,             \* _connectionName is set
    connection,                 \* the handle the guardian references, or Null
    isConnected,                \* the handles whose isConnected is true
    handles,                    \* number of handles the provider has created
    now,                        \* new Date().getTime()
    lastHealthCheck,            \* _lastHealthCheck, or NoDate
    lastHealthCheckResult,      \* _lastHealthCheckResult: "null", "true", "false"
    pc,                         \* per caller: where its call is suspended
    tgt,                        \* per caller: the handle its pending call acts on
    thisConfig,                 \* this.config, the stored MicroserviceORMConfig
    callConfig,                 \* the argument of the last buildConnectionOptions
    output,                     \* what the last buildConnectionOptions returned
    ev,                         \* what the last step did
    twin,                       \* a paired run: the guardian that is not on turn
    turn                        \* a paired run: whose step comes next ("off": one guardian)

config == <<app, opts, connectionRequired, unhealthyWithoutConnection,
            healthCheckInterval, connectionOptions, connectionName>>
\* what no method writes after construction
settings == <<opts, connectionRequired, unhealthyWithoutConnection,
              healthCheckInterval>>
cache == <<lastHealthCheck, lastHealthCheckResult>>
built == <<thisConfig, callConfig, output>>
peer == <<twin, turn>>
vars == <<app, opts, connectionRequired, unhealthyWithoutConnection,
          healthCheckInterval, connectionOptions, connectionName,
          connection, isConnected, handles, now,
          lastHealthCheck, lastHealthCheckResult, pc, tgt, ev,
          thisConfig, callConfig, output, twin, turn>>

\* ----------------------------------------------------------------- helpers
B(b) == IF b THEN "true" ELSE "false"

\* bindTo: onStartup(connect), onShutdown(close), addHealthCheck(healthCheck);
\* getConnection is the public accessor
OpOf(c) ==
    CASE c = "startup" -> "connect"
      [] c = "shutdown" -> "close"
      [] c = "probe" -> "healthCheck"
      [] c = "app" -> "getConnection"

\* the step ran no query
NoRows == 0 - 1

\* the record of one step
Ev(c, entry, done, ret, raised, connects, issued, outcome) ==
    [caller |-> c, op |-> OpOf(c), entry |-> entry, done |-> done,
     ret |-> ret, raised |-> raised, connects |-> connects,
     issued |-> issued, outcome |-> outcome, rows |-> NoRows]

NoEv ==
    [caller |-> "none", op |-> "none", entry |-> FALSE, done |-> FALSE,
     ret |-> "none", raised |-> FALSE, connects |-> 0,
     issued |-> "none", outcome |-> "none", rows |-> NoRows]

InFlight == {c \in Callers : pc[c] # "idle"}

\* this.connection?.isConnected
Live(conn, live) == conn # Null /\ conn \in live

\* -------------------------------------------------- buildConnectionOptions
\* An optional value is <<>> (undefined) or <<v>>.
Undef == <<>>
Some(v) == <<v>>

\* port: ... || 3306
FallbackPort == 3306

\* a || b on strings: undefined and '' are falsy
OrStr(a, b) == IF a # Undef /\ a[1] # "" THEN a ELSE b

\* a || b on numbers: undefined and 0 are falsy
OrNum(a, b) == IF a # Undef /\ a[1] # 0 THEN a ELSE b

\* slaves?: string | string[]
NoSlaves == [kind |-> "undefined", s |-> "", a |-> <<>>]
SlavesString(str) == [kind |-> "string", s |-> str, a |-> <<>>]
SlavesArray(arr) == [kind |-> "array", s |-> "", a |-> arr]

\* a || b on slaves: undefined and '' are falsy, every array (also []) is truthy
OrSlaves(a, b) ==
    IF a.kind = "array" \/ (a.kind = "string" /\ a.s # "") THEN a ELSE b

\* a normalisation that forgets the single-string form
NormalizeSlavesArrayOnly(x) == IF x.kind = "array" THEN x.a ELSE <<>>

\* if (typeof slaves === "string") slaves = [slaves]
NormalizeSlaves(x) ==
    IF x.kind = "string" THEN <<x.s>>
    ELSE IF x.kind = "array" THEN x.a
    ELSE <<>>

\* config === undefined (config?.field is undefined for every field)
UndefinedConfig ==
    [type |-> Undef, master |-> Undef, slaves |-> NoSlaves, port |-> Undef,
     database |-> Undef, username |-> Undef, password |-> Undef]

\* const details = { port, username, password, database }
Details(cfg, stored) ==
    [port |-> OrNum(OrNum(cfg.port, stored.port), Some(FallbackPort)),
     username |-> OrStr(cfg.username, stored.username),
     password |-> OrStr(cfg.password, stored.password),
     database |-> OrStr(cfg.database, stored.database)]

\* {host, ...details}
Endpoint(host, details) ==
    [host |-> host, port |-> details.port, username |-> details.username,
     password |-> details.password, database |-> details.database]

\* buildConnectionOptions(cfg), with this.config = stored; the constant
\* cli / entities / subscribers / migrations entries of the result are left out
buildConnectionOptions(cfg, stored) ==
    LET type == OrStr(OrStr(cfg.type, stored.type), Some("mysql"))
        details == Details(cfg, stored)
        master == OrStr(OrStr(cfg.master, stored.master), Some("127.0.0.1"))
        slaves == NormalizeSlaves(
                      OrSlaves(OrSlaves(cfg.slaves, stored.slaves), SlavesArray(<<>>)))
    IN  IF Len(slaves) = 0
        THEN [shape |-> "single", type |-> type,
              host |-> master, details |-> details,
              replication |-> [master |-> Endpoint(Undef, details), slaves |-> <<>>]]
        ELSE [shape |-> "replication", type |-> type,
              host |-> Undef, details |-> details,
              replication |->
                  [master |-> Endpoint(master, details),
                   slaves |-> [i \in 1..Len(slaves) |-> Endpoint(Some(slaves[i]), details)]]]

\* nothing built yet
NoOutput ==
    [shape |-> "none", type |-> Undef, host |-> Undef,
     details |-> Details(UndefinedConfig, UndefinedConfig),
     replication |-> [master |-> Endpoint(Undef, Details(UndefinedConfig, UndefinedConfig)),
                      slaves |-> <<>>]]

\* the replica hosts of the inputs, and the lists of them up to MaxSlaves
Replicas == {"r1", "r2"}
ReplicaLists == UNION {[1..n -> Replicas] : n \in 0..MaxSlaves}

\* the values slaves can be given
SlavesInputs ==
    {NoSlaves, SlavesString(""), SlavesString("r1")}
        \cup {SlavesArray(l) : l \in ReplicaLists}

\* the configurations passed to buildConnectionOptions
CallInputs ==
    [type : {Undef, Some("mysql"), Some("postgres")},
     master : {Undef, Some(""), Some("db1")},
     slaves : SlavesInputs,
     port : {Undef, Some(0), Some(5432)},
     database : {Undef, Some(""), Some("app")},
     username : {Undef, Some(""), Some("u")},
     password : {Undef, Some(""), Some("p")}]

\* the configurations given to the constructor as opts.config: none, a full
\* one, one of falsy values, and one with the two required fields only
StoredInputs ==
    {UndefinedConfig,
     [type |-> Some("postgres"), master |-> Some("sdb"),
      slaves |-> SlavesArray(<<"r2">>), port |-> Some(5433),
      database |-> Some("sapp"), username |-> Some("su"), password |-> Some("sp")],
     [type |-> Undef, master |-> Some(""), slaves |-> SlavesString(""),
      port |-> Some(0), database |-> Some(""), username |-> Some(""),
      password |-> Some("")],
     [type |-> Some("mysql"), master |-> Some("sdb"), slaves |-> NoSlaves,
      port |-> Undef, database |-> Undef, username |-> Undef, password |-> Undef]}

\* ------------------------------------------------------------- constructor
\* the options a caller may pass; "undefined" leaves the field's default
OptsInputs ==
    [connectionRequired : {"undefined", "false"},
     unhealthyWithoutConnection : {"undefined", "false"},
     healthCheckInterval : SuppliedIntervals,
     connectionOptions : BOOLEAN,
     connectionName : BOOLEAN]

\* if (opts?.connectionRequired !== undefined) this.connectionRequired = ...
CtorConnectionRequired(o) ==
    IF o.connectionRequired # "undefined" THEN o.connectionRequired = "true" ELSE TRUE

\* if (opts?.unhealthyWithoutConnection !== undefined) ...
CtorUnhealthyWithoutConnection(o) ==
    IF o.unhealthyWithoutConnection # "undefined"
    THEN o.unhealthyWithoutConnection = "true" ELSE TRUE

\* no line of the constructor reads opts.healthCheckInterval
CtorHealthCheckInterval(o) == DefaultHealthCheckInterval

\* new MicroserviceORM(a, o), with o.config = cfg; a says whether a host is given
Construct(a, o, cfg) ==
    /\ app = a
    /\ opts = [healthCheckInterval |-> o.healthCheckInterval]
    /\ connectionRequired = CtorConnectionRequired(o)
    /\ unhealthyWithoutConnection = CtorUnhealthyWithoutConnection(o)
    /\ healthCheckInterval = CtorHealthCheckInterval(o)
    /\ connectionOptions = o.connectionOptions
    /\ connectionName = o.connectionName
    /\ thisConfig = cfg
    /\ connection = Null
    /\ isConnected = {}
    /\ handles = 0
    /\ now = 0
    /\ lastHealthCheck = NoDate
    /\ lastHealthCheckResult = "null"
    /\ pc = [c \in Callers |-> "idle"]
    /\ tgt = [c \in Callers |-> Null]
    /\ ev = NoEv
    /\ callConfig = UndefinedConfig
    /\ output = NoOutput

\* one guardian, no second one beside it
NoTwin == [connectionRequired |-> FALSE]
Alone == twin = NoTwin /\ turn = "off"

\* new MicroserviceORM(app, o) with no healthCheckInterval in o
Init ==
    /\ Alone
    /\ \E o \in OptsInputs :
          o.healthCheckInterval = 0 /\ Construct(TRUE, o, UndefinedConfig)

\* ------------------------------------------------------------- paired runs
\* the guardian on turn, as the record the other one is kept in
Snapshot ==
    [connectionRequired |-> connectionRequired,
     connection |-> connection, isConnected |-> isConnected, handles |-> handles,
     lastHealthCheck |-> lastHealthCheck,
     lastHealthCheckResult |-> lastHealthCheckResult, pc |-> pc, tgt |-> tgt,
     ev |-> ev]

\* the step just taken is the step the other guardian took: the same call by
\* the same caller (or the same resumption) and the same outcome of the
\* provider's call; the clock does not move between the two
Mirror ==
    /\ ev'.caller = twin.ev.caller
    /\ ev'.entry = twin.ev.entry
    /\ ev'.outcome = twin.ev.outcome
    /\ ev'.rows = twin.ev.rows

\* what a step of the guardian on turn means for the pair: alone, nothing;
\* "free": it has led, the other guardian is to follow (what that one's last
\* step did is compared no more, and is forgotten); "swapped": it had to
\* follow the other guardian's step, and the pair is level again
Peer ==
    /\ turn \in {"off", "free", "swapped"}
    /\ twin' = (IF turn = "free" THEN [twin EXCEPT !.ev = NoEv] ELSE twin)
    /\ turn' = (CASE turn = "off" -> "off"
                  [] turn = "free" -> "led"
                  [] turn = "swapped" -> "free")
    /\ turn = "swapped" => Mirror

\* a step that is the same for the two guardians of a pair and is taken by
\* both at once, when both have taken the same steps: a setter that reads
\* nothing, called with the same argument on each, and the clock they share
Both ==
    /\ turn \in {"off", "free"}
    /\ turn' = turn
    /\ twin' = (IF turn = "free" THEN [twin EXCEPT !.ev = NoEv] ELSE twin)

\* ---------------------------------------------------- setConnectionOptions
\* if (options.name) this._connectionName = options.name
SetName(hasName, oldName) == IF hasName THEN TRUE ELSE oldName

\* orm.setConnectionOptions(options): a synchronous public method, callable at
\* any time; hasName says whether options.name is set
SetConnectionOptions(hasName) ==
    /\ connectionName' = SetName(hasName, connectionName)
    /\ connectionOptions' = TRUE
    /\ ev' = NoEv
    /\ UNCHANGED <<app, settings, built, connection, isConnected, handles, now,
                   cache, pc, tgt>>
    /\ Both

\* ------------------------------------------------------------------ bindTo
\* orm.bindTo(host): this.app = app, and the three hooks are registered with
\* the host; a synchronous public method, callable at any time
BindTo ==
    /\ app' = TRUE
    /\ ev' = NoEv
    /\ UNCHANGED <<settings, connectionOptions, connectionName, built, connection,
                   isConnected, handles, now, cache, pc, tgt>>
    /\ Both

\* ----------------------------------------------------------------- connect
\* connect() without the tests on this.connection: it always creates
ConnectPlanUnguarded(conn, live, hasOptions, hasName) ==
    IF hasOptions THEN "createOptions"
    ELSE IF hasName THEN "createName"
    ELSE "createDefault"

\* connect() that tries the named lookup before the override options
ConnectPlanNameFirst(conn, live, hasOptions, hasName) ==
    IF Live(conn, live) THEN "return"
    ELSE IF conn = Null /\ hasName THEN "createName"
    ELSE IF conn = Null /\ hasOptions THEN "createOptions"
    ELSE IF conn = Null THEN "createDefault"
    ELSE "activate"

\* connect() that never activates a handle it already holds
ConnectPlanNoReactivate(conn, live, hasOptions, hasName) ==
    IF conn # Null THEN "return"
    ELSE IF hasOptions THEN "createOptions"
    ELSE IF hasName THEN "createName"
    ELSE "createDefault"

\* connect() that makes no attempt when connections are optional
ConnectPlanWhenRequired(conn, live, hasOptions, hasName) ==
    IF Live(conn, live) \/ ~connectionRequired THEN "return"
    ELSE IF conn = Null /\ hasOptions THEN "createOptions"
    ELSE IF conn = Null /\ hasName THEN "createName"
    ELSE IF conn = Null THEN "createDefault"
    ELSE "activate"

\* the three awaits of createConnection (lines 94, 97, 100)
CreateStages == {"awaitCreateOptions", "awaitCreateName", "awaitCreateDefault"}

\* the await a creation call suspends at
AwaitOf(call) ==
    CASE call = "createOptions" -> "awaitCreateOptions"
      [] call = "createName" -> "awaitCreateName"
      [] call = "createDefault" -> "awaitCreateDefault"

\* what connect() does before its first await
ConnectPlan(conn, live, hasOptions, hasName) ==
    IF Live(conn, live) THEN "return"
    ELSE IF conn = Null /\ hasOptions THEN "createOptions"
    ELSE IF conn = Null /\ hasName THEN "createName"
    ELSE IF conn = Null THEN "createDefault"
    ELSE "activate"

\* return this.connectionRequired ? this.connection?.isConnected : true
\* (undefined when connections are required and the field holds no handle)
ConnectReturn(required, conn, live) ==
    IF ~required THEN "true"
    ELSE IF conn = Null THEN "undefined"
    ELSE B(conn \in live)

\* catch (err): this.app?.error('ORM:','Error',err.message) throws a TypeError
\* when a host is bound and err is undefined or null; with no host the
\* optional call short-circuits and err.message is not evaluated
CatchRaises(hasApp, errNullish) == hasApp /\ errNullish

\* catch (err): return this.connectionRequired ? false : true
ConnectCatchReturn(required) == IF required THEN FALSE ELSE TRUE

\* the values an establishment call can reject with: an Error (or any value
\* with properties), or undefined / null
Rejections == {"throw", "throwNullish"}

\* connect() runs up to its first await (or to its return) inside the step
\* that called it; entry says whether that step also began the caller's call
ConnectEnter(c, entry) ==
    LET plan == ConnectPlan(connection, isConnected, connectionOptions, connectionName) IN
    /\ UNCHANGED <<connection, isConnected, handles>>
    /\ \/ /\ plan = "return"
          /\ tgt' = tgt
          /\ IF OpOf(c) = "connect"
             THEN /\ pc' = pc
                  /\ ev' = Ev(c, entry, TRUE, "true", FALSE, 1, "none", "none")
             ELSE /\ pc' = [pc EXCEPT ![c] = "afterConnect"]
                  /\ ev' = Ev(c, entry, FALSE, "none", FALSE, 1, "none", "none")
       \/ /\ plan \in {"createOptions", "createName", "createDefault"}
          /\ tgt' = tgt
          /\ pc' = [pc EXCEPT ![c] = AwaitOf(plan)]
          /\ ev' = Ev(c, entry, FALSE, "none", FALSE, 1, plan, "none")
       \/ /\ plan = "activate"
          /\ tgt' = [tgt EXCEPT ![c] = connection]
          /\ pc' = [pc EXCEPT ![c] = "awaitConnect"]
          /\ ev' = Ev(c, entry, FALSE, "none", FALSE, 1, plan, "none")

\* connect() returns r: the startup hook's call is over, a nested call goes
\* back to the await in healthCheck / getConnection
ConnectExit(c, r, outcome) ==
    IF OpOf(c) = "connect"
    THEN /\ pc' = [pc EXCEPT ![c] = "idle"]
         /\ ev' = Ev(c, FALSE, TRUE, r, FALSE, 0, "none", outcome)
    ELSE /\ pc' = [pc EXCEPT ![c] = "afterConnect"]
         /\ ev' = Ev(c, FALSE, FALSE, "none", FALSE, 0, "none", outcome)

\* connect() rejects with the TypeError of its catch block: the startup hook's
\* call is over, a nested call rejects the await in healthCheck / getConnection
ConnectRaise(c, outcome) ==
    IF OpOf(c) = "connect"
    THEN /\ pc' = [pc EXCEPT ![c] = "idle"]
         /\ ev' = Ev(c, FALSE, TRUE, "none", TRUE, 0, "none", outcome)
    ELSE /\ pc' = [pc EXCEPT ![c] = "connectRejected"]
         /\ ev' = Ev(c, FALSE, FALSE, "none", FALSE, 0, "none", outcome)

\* the catch block of connect(), entered with the rejection rej
ConnectCatch(c, rej) ==
    IF CatchRaises(app, rej = "throwNullish")
    THEN ConnectRaise(c, rej)
    ELSE ConnectExit(c, B(ConnectCatchReturn(connectionRequired)), rej)

\* the host's startup hook
Connect(c) ==
    /\ OpOf(c) = "connect"
    /\ pc[c] = "idle"
    /\ Cardinality(InFlight) < MaxInFlight
    /\ ConnectEnter(c, TRUE)
    /\ UNCHANGED <<config, built, now, cache>>
    /\ Peer

\* this.connection = await createConnection(...) resumes: with a handle that
\* is connected, with one that is not (line 102 then awaits its connect()),
\* or with a rejection; with a handle set, the guards of lines 96 and 99 are
\* false and no other source is tried
ResumeCreate(c) ==
    /\ pc[c] \in CreateStages
    /\ UNCHANGED <<config, built, now, cache>>
    /\ \/ /\ handles < MaxHandles
          /\ handles' = handles + 1
          /\ connection' = handles + 1
          /\ isConnected' = isConnected \cup {handles + 1}
          /\ tgt' = tgt
          /\ ConnectExit(c, ConnectReturn(connectionRequired, connection', isConnected'),
                         "live")
       \/ /\ handles < MaxHandles
          /\ handles' = handles + 1
          /\ connection' = handles + 1
          /\ isConnected' = isConnected
          /\ tgt' = [tgt EXCEPT ![c] = handles + 1]
          /\ pc' = [pc EXCEPT ![c] = "awaitConnect"]
          /\ ev' = Ev(c, FALSE, FALSE, "none", FALSE, 0, "activate", "dead")
       \/ /\ UNCHANGED <<connection, isConnected, handles, tgt>>
          /\ \E rej \in Rejections : ConnectCatch(c, rej)
    /\ Peer

\* await this.connection.connect() resumes
ResumeConnect(c) ==
    /\ pc[c] = "awaitConnect"
    /\ UNCHANGED <<config, built, now, cache, connection, handles>>
    /\ tgt' = [tgt EXCEPT ![c] = Null]
    /\ \/ /\ isConnected' = isConnected \cup {tgt[c]}
          /\ ConnectExit(c, ConnectReturn(connectionRequired, connection, isConnected'),
                         "ok")
       \/ /\ isConnected' = isConnected
          /\ ConnectExit(c, ConnectReturn(connectionRequired, connection, isConnected),
                         "noop")
       \/ /\ isConnected' = isConnected
          /\ \E rej \in Rejections : ConnectCatch(c, rej)
    /\ Peer

\* ------------------------------------------------------------------- close
\* close() without the test on isConnected
ClosePlanAnyHandle(conn, live) == IF conn = Null THEN "noop" ELSE "close"

\* if (!this.connection) return true; if (!this.connection.isConnected) return true
ClosePlan(conn, live) ==
    IF conn = Null THEN "noop"
    ELSE IF conn \notin live THEN "noop"
    ELSE "close"

\* the return of close() with its two branches swapped
CloseReturnSwapped(conn, live) == IF conn \in live THEN TRUE ELSE FALSE

\* return this.connection.isConnected ? false : true
CloseReturn(conn, live) == IF conn \in live THEN FALSE ELSE TRUE

\* line 122 reads this.connection.isConnected: a TypeError when the field was
\* set to no handle while close() was suspended
CloseReturnRaises(conn) == conn = Null

\* close() ends after its await: with the TypeError of line 122, or returning
CloseExit(c, conn, live, outcome) ==
    IF CloseReturnRaises(conn)
    THEN ev' = Ev(c, FALSE, TRUE, "none", TRUE, 0, "none", outcome)
    ELSE ev' = Ev(c, FALSE, TRUE, B(CloseReturn(conn, live)), FALSE, 0, "none", outcome)

\* the host's shutdown hook
Close(c) ==
    /\ OpOf(c) = "close"
    /\ pc[c] = "idle"
    /\ Cardinality(InFlight) < MaxInFlight
    /\ UNCHANGED <<config, built, now, cache, connection, isConnected, handles>>
    /\ IF ClosePlan(connection, isConnected) = "noop"
       THEN /\ UNCHANGED <<pc, tgt>>
            /\ ev' = Ev(c, TRUE, TRUE, "true", FALSE, 0, "none", "none")
       ELSE /\ pc' = [pc EXCEPT ![c] = "awaitClose"]
            /\ tgt' = [tgt EXCEPT ![c] = connection]
            /\ ev' = Ev(c, TRUE, FALSE, "none", FALSE, 0, "close", "none")
    /\ Peer

\* await this.connection.close() resumes; a rejection is not caught
ResumeClose(c) ==
    /\ pc[c] = "awaitClose"
    /\ UNCHANGED <<config, built, now, cache, connection, handles>>
    /\ pc' = [pc EXCEPT ![c] = "idle"]
    /\ tgt' = [tgt EXCEPT ![c] = Null]
    /\ \/ /\ isConnected' = isConnected \ {tgt[c]}
          /\ CloseExit(c, connection, isConnected', "ok")
       \/ /\ isConnected' = isConnected
          /\ CloseExit(c, connection, isConnected, "stillLive")
       \/ /\ isConnected' = isConnected
          /\ ev' = Ev(c, FALSE, TRUE, "none", TRUE, 0, "none", "throw")
    /\ Peer

\* ------------------------------------------------------------- healthCheck
\* healthCheck() without the opt-out test
HealthCheckPlanNoOptOut(unhealthy, lhc, lhcr, t, interval) ==
    IF lhc # NoDate /\ lhcr = "true" /\ lhc >= t - interval THEN "cached"
    ELSE "work"

\* healthCheck() whose cache never expires
HealthCheckPlanNoExpiry(unhealthy, lhc, lhcr, t, interval) ==
    IF unhealthy = FALSE THEN "optOut"
    ELSE IF lhc # NoDate /\ lhcr = "true" THEN "cached"
    ELSE "work"

\* the two tests at the head of healthCheck()
HealthCheckPlan(unhealthy, lhc, lhcr, t, interval) ==
    IF unhealthy = FALSE THEN "optOut"
    ELSE IF lhc # NoDate /\ lhcr = "true" /\ lhc >= t - interval THEN "cached"
    ELSE "work"

\* if (!this.connection || !this.connection?.isConnected) return false
NoConnection(conn, live) == conn = Null \/ conn \notin live

\* result = (check.length >= 0)
QueryResultAnyLength(rows) == rows >= 0

\* result = (check.length > 0)
QueryResult(rows) == rows > 0

\* a finally block that stores result || null
FinallyCacheTruthy(t, result) == <<t, IF result THEN "true" ELSE "null">>

\* finally: this._lastHealthCheck = new Date(); this._lastHealthCheckResult = result
FinallyCache(t, result) == <<t, B(result)>>

\* the host's probe hook
HealthCheck(c) ==
    LET plan == HealthCheckPlan(unhealthyWithoutConnection, lastHealthCheck,
                                lastHealthCheckResult, now, healthCheckInterval) IN
    /\ OpOf(c) = "healthCheck"
    /\ pc[c] = "idle"
    /\ Cardinality(InFlight) < MaxInFlight
    /\ UNCHANGED <<config, built, now, cache>>
    /\ \/ /\ plan = "optOut"
          /\ UNCHANGED <<connection, isConnected, handles, pc, tgt>>
          /\ ev' = Ev(c, TRUE, TRUE, "true", FALSE, 0, "none", "none")
       \/ /\ plan = "cached"
          /\ UNCHANGED <<connection, isConnected, handles, pc, tgt>>
          /\ ev' = Ev(c, TRUE, TRUE, lastHealthCheckResult, FALSE, 0, "none", "none")
       \/ /\ plan = "work"
          /\ ConnectEnter(c, TRUE)
    /\ Peer

\* healthCheck() continues after await this.connect(); a rejection of
\* connect() is not caught (line 137 is outside the try)
HealthCheckAfterConnect(c) ==
    /\ OpOf(c) = "healthCheck"
    /\ pc[c] \in {"afterConnect", "connectRejected"}
    /\ UNCHANGED <<config, built, now, cache, connection, isConnected, handles>>
    /\ IF pc[c] = "connectRejected"
       THEN /\ pc' = [pc EXCEPT ![c] = "idle"]
            /\ tgt' = tgt
            /\ ev' = Ev(c, FALSE, TRUE, "none", TRUE, 0, "none", "rejected")
       ELSE IF NoConnection(connection, isConnected)
       THEN /\ pc' = [pc EXCEPT ![c] = "idle"]
            /\ tgt' = tgt
            /\ ev' = Ev(c, FALSE, TRUE, "false", FALSE, 0, "none", "none")
       ELSE /\ pc' = [pc EXCEPT ![c] = "awaitQuery"]
            /\ tgt' = [tgt EXCEPT ![c] = connection]
            /\ ev' = Ev(c, FALSE, FALSE, "none", FALSE, 0, "query", "none")
    /\ Peer

\* await this.connection.query(...) resumes: rows, or an error that is caught
ResumeQuery(c) ==
    /\ pc[c] = "awaitQuery"
    /\ UNCHANGED <<config, built, now, connection, isConnected, handles>>
    /\ pc' = [pc EXCEPT ![c] = "idle"]
    /\ tgt' = [tgt EXCEPT ![c] = Null]
    /\ \/ \E rows \in 0..MaxRows :
            /\ lastHealthCheck' = FinallyCache(now, QueryResult(rows))[1]
            /\ lastHealthCheckResult' = FinallyCache(now, QueryResult(rows))[2]
            /\ ev' = [Ev(c, FALSE, TRUE, B(QueryResult(rows)), FALSE, 0, "none", "rows")
                        EXCEPT !.rows = rows]
       \/ /\ lastHealthCheck' = FinallyCache(now, FALSE)[1]
          /\ lastHealthCheckResult' = FinallyCache(now, FALSE)[2]
          /\ ev' = Ev(c, FALSE, TRUE, "false", FALSE, 0, "none", "throw")
    /\ Peer

\* ----------------------------------------------------------- getConnection
\* a test on the handle's presence only
NeedsConnectWhenAbsent(conn, live) == conn = Null

\* if (!this.connection || !this.connection.isConnected) await this.connect()
NeedsConnect(conn, live) == conn = Null \/ conn \notin live

\* this._connectionName ? getConnection(this._connectionName) : getConnection()
RegistryLookup(hasName) == IF hasName THEN "registryNamed" ELSE "registryDefault"

\* the application asks for the connection
GetConnection(c) ==
    /\ OpOf(c) = "getConnection"
    /\ pc[c] = "idle"
    /\ Cardinality(InFlight) < MaxInFlight
    /\ UNCHANGED <<config, built, now, cache>>
    /\ IF NeedsConnect(connection, isConnected)
       THEN ConnectEnter(c, TRUE)
       ELSE /\ UNCHANGED <<connection, isConnected, handles, pc, tgt>>
            /\ ev' = Ev(c, TRUE, TRUE, "own", FALSE, 0, "none", "none")
    /\ Peer

\* getConnection() continues after await this.connect(); a rejection of
\* connect() is not caught; the registry lookup returns a connection or
\* throws, and the throw is not caught
GetConnectionAfterConnect(c) ==
    /\ OpOf(c) = "getConnection"
    /\ pc[c] \in {"afterConnect", "connectRejected"}
    /\ UNCHANGED <<config, built, now, cache, connection, isConnected, handles, tgt>>
    /\ pc' = [pc EXCEPT ![c] = "idle"]
    /\ IF pc[c] = "connectRejected"
       THEN ev' = Ev(c, FALSE, TRUE, "none", TRUE, 0, "none", "rejected")
       ELSE IF Live(connection, isConnected)
       THEN ev' = Ev(c, FALSE, TRUE, "own", FALSE, 0, "none", "none")
       ELSE \/ ev' = Ev(c, FALSE, TRUE, "registry", FALSE, 0,
                        RegistryLookup(connectionName), "found")
            \/ ev' = Ev(c, FALSE, TRUE, "none", TRUE, 0,
                        RegistryLookup(connectionName), "throw")
    /\ Peer

\* ------------------------------------------------------------------- clock
Tick ==
    /\ \E d \in Deltas : now + d <= MaxTime /\ now' = now + d
    /\ ev' = NoEv
    /\ UNCHANGED <<config, built, connection, isConnected, handles, cache, pc, tgt>>
    /\ Both

Next ==
    \/ \E c \in Callers : Connect(c)
    \/ \E c \in Callers : ResumeCreate(c)
    \/ \E c \in Callers : ResumeConnect(c)
    \/ \E c \in Callers : Close(c)
    \/ \E c \in Callers : ResumeClose(c)
    \/ \E c \in Callers : HealthCheck(c)
    \/ \E c \in Callers : HealthCheckAfterConnect(c)
    \/ \E c \in Callers : ResumeQuery(c)
    \/ \E c \in Callers : GetConnection(c)
    \/ \E c \in Callers : GetConnectionAfterConnect(c)
    \/ \E hasName \in BOOLEAN : SetConnectionOptions(hasName)
    \/ BindTo
    \/ Tick

Spec == Init /\ [][Next]_vars

\* new MicroserviceORM(app, o) with a healthCheckInterval in o
IntervalInit ==
    /\ Alone
    /\ \E o \in OptsInputs :
          o.healthCheckInterval # 0 /\ Construct(TRUE, o, UndefinedConfig)

IntervalSpec == IntervalInit /\ [][Next]_vars

\* new MicroserviceORM(undefined, o): no host until bindTo is called
NoHostInit ==
    /\ Alone
    /\ \E o \in OptsInputs : Construct(FALSE, o, UndefinedConfig)

NoHostSpec == NoHostInit /\ [][Next]_vars

\* ------------------------------------------------- two guardians, side by side
\* the options o with the other value of connectionRequired
OtherRequired(o) ==
    [o EXCEPT !.connectionRequired =
                  IF o.connectionRequired = "undefined" THEN "false" ELSE "undefined"]

\* new MicroserviceORM(app, o) and new MicroserviceORM(app, o2), where o2 is o
\* but for connectionRequired; either of the two takes the first step
PairInit ==
    /\ \E o \in OptsInputs :
          /\ o.healthCheckInterval = 0
          /\ Construct(TRUE, o, UndefinedConfig)
          /\ twin = [Snapshot EXCEPT
                       !.connectionRequired = CtorConnectionRequired(OtherRequired(o))]
    /\ turn = "free"

\* the guardian that has led steps aside and the other one comes on turn, to
\* take the same step; the host, the options and the connection source, which
\* the two are given alike, and the clock stay
Swap ==
    /\ turn = "led"
    /\ turn' = "swapped"
    /\ twin' = Snapshot
    /\ connectionRequired' = twin.connectionRequired
    /\ connection' = twin.connection
    /\ isConnected' = twin.isConnected
    /\ handles' = twin.handles
    /\ lastHealthCheck' = twin.lastHealthCheck
    /\ lastHealthCheckResult' = twin.lastHealthCheckResult
    /\ pc' = twin.pc
    /\ tgt' = twin.tgt
    /\ ev' = twin.ev
    /\ UNCHANGED <<app, opts, unhealthyWithoutConnection, healthCheckInterval,
                   connectionOptions, connectionName, now, built>>

\* every method, resumption and clock step of Next: the calls and their
\* resumptions for the guardian on turn, the setters and the clock for both,
\* and the change of turn
PairNext ==
    \/ \E c \in Callers : Connect(c)
    \/ \E c \in Callers : ResumeCreate(c)
    \/ \E c \in Callers : ResumeConnect(c)
    \/ \E c \in Callers : Close(c)
    \/ \E c \in Callers : ResumeClose(c)
    \/ \E c \in Callers : HealthCheck(c)
    \/ \E c \in Callers : HealthCheckAfterConnect(c)
    \/ \E c \in Callers : ResumeQuery(c)
    \/ \E c \in Callers : GetConnection(c)
    \/ \E c \in Callers : GetConnectionAfterConnect(c)
    \/ \E hasName \in BOOLEAN : SetConnectionOptions(hasName)
    \/ BindTo
    \/ Tick
    \/ Swap

PairSpec == PairInit /\ [][PairNext]_vars

\* ------------------------------------------- buildConnectionOptions, called
\* new MicroserviceORM(app) with no options
NoOpts ==
    [connectionRequired |-> "undefined", unhealthyWithoutConnection |-> "undefined",
     healthCheckInterval |-> 0, connectionOptions |-> FALSE, connectionName |-> FALSE]

BuildInit ==
    /\ Alone
    /\ \E cfg \in StoredInputs : Construct(TRUE, NoOpts, cfg)

\* orm.buildConnectionOptions(config): a pure function of its argument and of
\* this.config, so one call per run covers it
Build ==
    /\ output.shape = "none"
    /\ \E cfg \in CallInputs :
          /\ callConfig' = cfg
          /\ output' = buildConnectionOptions(cfg, thisConfig)
    /\ UNCHANGED <<config, connection, isConnected, handles, now, cache, pc, tgt, ev,
                   thisConfig, peer>>

BuildNext == Build

BuildSpec == BuildInit /\ [][BuildNext]_vars

\* ==================================================================
\* Properties
\* ==================================================================

\* C1: with unhealthyWithoutConnection = true, for any cached result r (true
\* or false) whose timestamp satisfies lastCheck >= now - healthCheckInterval,
\* healthCheck() returns r without calling connect() and without a query.
C1_CachedResultReturned ==
    [][(/\ ev'.entry /\ ev'.op = "healthCheck"
        /\ unhealthyWithoutConnection
        /\ lastHealthCheck # NoDate /\ lastHealthCheckResult # "null"
        /\ lastHealthCheck >= now - healthCheckInterval)
       => (/\ ev'.done /\ ~ev'.raised
           /\ ev'.ret = lastHealthCheckResult
           /\ ev'.connects = 0 /\ ev'.issued = "none")]_vars

\* C2: every healthCheck() call that gets past the opt-out and the cache-hit
\* test has set the cache (timestamp = now, result = the value it returns)
\* when it returns, on every path.
C2_CacheSetOnEveryPath ==
    (ev.op = "healthCheck" /\ ev.done /\ ~ev.entry)
    => (lastHealthCheck = now /\ lastHealthCheckResult = ev.ret)

\* C3: when unhealthyWithoutConnection is false, healthCheck() returns true at
\* once and touches nothing: no connect(), no backend call, and connection,
\* the handles and both cache fields stay as they are.
C3_OptOutTouchesNothing ==
    [][(ev'.entry /\ ev'.op = "healthCheck" /\ ~unhealthyWithoutConnection)
       => (/\ ev'.done /\ ~ev'.raised /\ ev'.ret = "true"
           /\ ev'.connects = 0 /\ ev'.issued = "none"
           /\ UNCHANGED <<connection, isConnected, handles,
                          lastHealthCheck, lastHealthCheckResult, pc>>)]_vars

\* a healthCheck() answered by the opt-out with no connection ever established
C3_Witness ==
    /\ ev.op = "healthCheck" /\ ev.entry /\ ev.done /\ ev.ret = "true"
    /\ ~unhealthyWithoutConnection
    /\ connection = Null /\ handles = 0

\* C4 as stated: a connect() called while the handle is live returns true,
\* makes no establishment call (createConnection or handle.connect) and
\* leaves the handle as it is; a connect() called while it is not live makes
\* exactly one establishment call, the one at its entry, so that two calls in
\* sequence make exactly one.
C4_ConnectIdempotent ==
    [][/\ (ev'.entry /\ ev'.op = "connect"
           /\ connection # Null /\ connection \in isConnected)
          => (/\ ev'.done /\ ~ev'.raised /\ ev'.ret = "true"
              /\ ev'.issued = "none"
              /\ UNCHANGED <<connection, isConnected, handles>>)
       /\ (ev'.entry /\ ev'.op = "connect"
           /\ ~(connection # Null /\ connection \in isConnected))
          => (ev'.issued \in {"createOptions", "createName", "createDefault", "activate"}
              /\ ~ev'.done)
       /\ (~ev'.entry /\ ev'.op = "connect") => (ev'.issued = "none" /\ ev'.done)]_vars

\* C4 as amended: the second connect() is as stated; the first one makes one
\* establishment call at its entry and, when that call was a createConnection
\* that returned a handle not connected, one handle.connect on that handle.
C4_IdempotentOnLiveHandle ==
    [][/\ (ev'.entry /\ ev'.op = "connect"
           /\ connection # Null /\ connection \in isConnected)
          => (/\ ev'.done /\ ~ev'.raised /\ ev'.ret = "true"
              /\ ev'.issued = "none"
              /\ UNCHANGED <<connection, isConnected, handles>>)
       /\ (ev'.entry /\ ev'.op = "connect"
           /\ ~(connection # Null /\ connection \in isConnected))
          => (ev'.issued \in {"createOptions", "createName", "createDefault", "activate"}
              /\ ~ev'.done)
       /\ (~ev'.entry /\ ev'.op = "connect")
          => \/ ev'.issued = "none" /\ ev'.done
             \/ /\ pc["startup"] \in CreateStages /\ ev'.outcome = "dead"
                /\ ev'.issued = "activate" /\ ~ev'.done
                /\ handles' = handles + 1 /\ connection' = handles'
                /\ tgt'["startup"] = connection'
                /\ connection' \notin isConnected']_vars

\* a second connect() answered at once on the one handle the first one created
C4_Witness ==
    /\ ev.op = "connect" /\ ev.entry /\ ev.done /\ ev.ret = "true"
    /\ handles = 1 /\ connection = 1 /\ isConnected = {1}

\* C5: when createConnection or handle.connect throws, whatever the value
\* thrown, connect() raises nothing and returns the negation of
\* connectionRequired.
C5_ConnectFailureReturn ==
    (ev.op = "connect" /\ ev.outcome \in Rejections)
    => (ev.done /\ ~ev.raised /\ ev.ret = B(~connectionRequired))

\* C6: no entry point lets an error of the backend or of the registry escape
\* to its caller: every call ends in a returned value.
C6_NoErrorEscapes == ~ev.raised

\* C7: at most one live handle created by the guardian exists at any time,
\* whatever the interleaving of the entry points.
C7_AtMostOneLiveHandle == Cardinality(isConnected) <= 1

\* C8 as stated: after close() has completed successfully on a guardian that
\* held a live handle, the connection field is None.
C8_ConnectionNoneAfterClose ==
    (ev.op = "close" /\ ev.done /\ ~ev.entry /\ ev.ret = "true")
    => connection = Null

\* C8 as amended: after close() has completed successfully on a guardian
\* that held a live handle, the connection field still references a handle,
\* and that handle is inactive.
C8_HandleRetainedAfterClose ==
    (ev.op = "close" /\ ev.done /\ ~ev.entry /\ ev.ret = "true")
    => (connection # Null /\ connection \notin isConnected)

\* a close() that closed the live handle and reported success
C8_Witness ==
    /\ ev.op = "close" /\ ev.done /\ ~ev.entry /\ ev.ret = "true"
    /\ ev.outcome = "ok" /\ connection = 1

\* C9: close() returns true without a close on the backend when there is no
\* handle or the handle is inactive; otherwise it issues exactly one close
\* and, when that close does not throw, returns true iff the handle is
\* inactive at the return.
C9_CloseContract ==
    [][/\ (ev'.entry /\ ev'.op = "close"
           /\ (connection = Null \/ connection \notin isConnected))
          => (/\ ev'.done /\ ~ev'.raised /\ ev'.ret = "true"
              /\ ev'.issued = "none" /\ isConnected' = isConnected)
       /\ (ev'.entry /\ ev'.op = "close"
           /\ connection # Null /\ connection \in isConnected)
          => (ev'.issued = "close" /\ ~ev'.done)
       /\ (~ev'.entry /\ ev'.op = "close")
          => (/\ ev'.done /\ ev'.issued = "none"
              /\ ~ev'.raised =>
                   (ev'.ret = B(~(connection' # Null /\ connection' \in isConnected'))))]_vars

\* a close() whose backend close left the handle live, and that returned false
C9_Witness ==
    /\ ev.op = "close" /\ ev.done /\ ~ev.entry /\ ev.ret = "false"
    /\ ev.outcome = "stillLive" /\ connection \in isConnected

\* C10: the cache timestamp is None iff the cache result is None, and the
\* two fields change only in the step that completes a healthCheck() call
\* that did work (so both are None until the first such call has completed).
C10_CachePaired ==
    /\ []((lastHealthCheck = NoDate) <=> (lastHealthCheckResult = "null"))
    /\ [][(lastHealthCheck' # lastHealthCheck
           \/ lastHealthCheckResult' # lastHealthCheckResult)
          => (ev'.op = "healthCheck" /\ ev'.done /\ ~ev'.entry)]_vars

\* a completed check that cached a negative result
C10_Witness ==
    /\ ev.op = "healthCheck" /\ ev.done /\ ~ev.entry
    /\ lastHealthCheck = now /\ lastHealthCheckResult = "false"

\* ------------------------------------------------ buildConnectionOptions
\* the replica sequence of a call: the per-call slaves when given, else the
\* stored ones, else none; a single string counts as one replica
C11_Replicas ==
    LET given(x) == x.kind = "array" \/ (x.kind = "string" /\ x.s # "")
        raw == IF given(callConfig.slaves) THEN callConfig.slaves
               ELSE IF given(thisConfig.slaves) THEN thisConfig.slaves
               ELSE SlavesArray(<<>>)
    IN  IF raw.kind = "string" THEN <<raw.s>> ELSE raw.a

\* the master host of a call
C11_Master ==
    LET given(x) == x # Undef /\ x[1] # ""
    IN  IF given(callConfig.master) THEN callConfig.master
        ELSE IF given(thisConfig.master) THEN thisConfig.master
        ELSE Some("127.0.0.1")

\* C11: with an empty replica sequence the result is single-endpoint options
\* with host = master and no replication block; with N >= 1 replicas it is
\* replication options whose slaves list has exactly N endpoints, in input
\* order and without deduplication, each carrying the port, username,
\* password and database of the master endpoint.
C11_TopologyFromReplicas ==
    output.shape # "none" =>
        LET n == C11_Replicas
            out == output.replication
        IN  IF Len(n) = 0
            THEN /\ output.shape = "single"
                 /\ output.host = C11_Master
                 /\ out.slaves = <<>>
            ELSE /\ output.shape = "replication"
                 /\ out.master.host = C11_Master
                 /\ Len(out.slaves) = Len(n)
                 /\ \A i \in 1..Len(n) :
                      /\ out.slaves[i].host = Some(n[i])
                      /\ out.slaves[i].port = out.master.port
                      /\ out.slaves[i].username = out.master.username
                      /\ out.slaves[i].password = out.master.password
                      /\ out.slaves[i].database = out.master.database

\* a call that lists the same replica twice and gets two endpoints
C11_Witness ==
    /\ output.shape = "replication"
    /\ callConfig.slaves = SlavesArray(<<"r1", "r1">>)
    /\ Len(output.replication.slaves) = 2
    /\ output.replication.slaves[2].username = Some("u")

\* C12: every field is resolved by strict precedence: a value set in the
\* per-call config wins over the stored config, which wins over the
\* hard-coded fallback, for every value a field can be set to, 0, the empty
\* string and the empty replica list included.
C12_StrictPrecedence ==
    output.shape # "none" =>
        LET pick(a, b, c) == IF a # Undef THEN a ELSE IF b # Undef THEN b ELSE c
            slaves == IF callConfig.slaves.kind # "undefined" THEN callConfig.slaves
                      ELSE IF thisConfig.slaves.kind # "undefined" THEN thisConfig.slaves
                      ELSE SlavesArray(<<>>)
            list == IF slaves.kind = "string" THEN <<slaves.s>> ELSE slaves.a
            master == IF output.shape = "single" THEN output.host
                      ELSE output.replication.master.host
        IN  /\ output.type = pick(callConfig.type, thisConfig.type, Some("mysql"))
            /\ output.details.port = pick(callConfig.port, thisConfig.port, Some(3306))
            /\ output.details.username = pick(callConfig.username, thisConfig.username, Undef)
            /\ output.details.password = pick(callConfig.password, thisConfig.password, Undef)
            /\ output.details.database = pick(callConfig.database, thisConfig.database, Undef)
            /\ master = pick(callConfig.master, thisConfig.master, Some("127.0.0.1"))
            /\ Len(output.replication.slaves) = Len(list)
            /\ \A i \in 1..Len(list) : output.replication.slaves[i].host = Some(list[i])

\* ------------------------------------------------------ lifecycle, continued
\* C13: with unhealthyWithoutConnection = true, a healthCheck() made when the
\* cached timestamp is older than now - healthCheckInterval does not answer
\* from the cache: it invokes connect(), and a healthCheck() that finds the
\* handle live after connect() executes the health query.
C13_StaleCacheRechecked ==
    [][/\ (/\ ev'.entry /\ ev'.op = "healthCheck"
           /\ unhealthyWithoutConnection
           /\ lastHealthCheck # NoDate
           /\ lastHealthCheck < now - healthCheckInterval)
          => (ev'.connects = 1 /\ ~ev'.done)
       /\ (/\ ev'.op = "healthCheck" /\ pc["probe"] = "afterConnect"
           /\ connection # Null /\ connection \in isConnected)
          => (ev'.issued = "query" /\ ~ev'.done)]_vars

\* the query is executed again while a stale positive result is cached
C13_Witness ==
    /\ ev.op = "healthCheck" /\ ev.issued = "query"
    /\ lastHealthCheckResult = "true"
    /\ lastHealthCheck # NoDate
    /\ lastHealthCheck < now - healthCheckInterval

\* C14: when healthCheck() has executed the health query, its result is true
\* iff the query returned at least one row; zero rows or a throw yield
\* false, and the throw is not propagated.
C14_QueryResult ==
    [][(ev'.op = "healthCheck" /\ pc["probe"] = "awaitQuery")
       => (/\ ev'.done /\ ~ev'.raised
           /\ ev'.outcome \in {"rows", "throw"}
           /\ ev'.outcome = "rows" => ev'.rows \in 0..MaxRows
           /\ ev'.ret = B(ev'.outcome = "rows" /\ ev'.rows >= 1))]_vars

\* a health query that threw, answered with false
C14_Witness ==
    /\ ev.op = "healthCheck" /\ ev.outcome = "throw"
    /\ ev.done /\ ev.ret = "false" /\ ~ev.raised

\* C15: a connect() that finds no handle makes one creation call, to the
\* source of highest priority that is set (override options, else the named
\* lookup, else the ambient default); a lower source is never tried when a
\* higher one is set, and no creation call is made later in the same
\* invocation.
C15_CreationPriority ==
    [][/\ (ev'.connects = 1 /\ connection = Null)
          => ev'.issued = (IF connectionOptions THEN "createOptions"
                           ELSE IF connectionName THEN "createName"
                           ELSE "createDefault")
       /\ (ev'.connects = 1 /\ connection # Null)
          => ev'.issued \notin {"createOptions", "createName", "createDefault"}
       /\ (ev'.connects = 0)
          => ev'.issued \notin {"createOptions", "createName", "createDefault"}]_vars

\* both the override options and a name are set, and the creation call that
\* is pending is the one by the options
C15_Witness ==
    /\ ev.connects = 1 /\ ev.issued = "createOptions"
    /\ connectionOptions /\ connectionName
    /\ connection = Null /\ pc[ev.caller] = "awaitCreateOptions"

\* C16: a connect() invoked while the handle is absent or not live makes
\* exactly one establishment attempt, begun at its entry whatever the time
\* and whatever came before: the call issued at entry and, after a
\* createConnection that returned a handle not connected, the activation of
\* that handle; nothing is called after a failure.  An invocation whose
\* attempt succeeds ends in Connected: the guardian's handle is live, and
\* the startup connect() returns true.
C16_NoCooldown ==
    [][/\ (ev'.connects = 1 /\ ~(connection # Null /\ connection \in isConnected))
          => (/\ ev'.issued \in {"createOptions", "createName", "createDefault",
                                 "activate"}
              /\ ~ev'.done)
       /\ (ev'.connects = 0
           /\ ev'.issued \in {"createOptions", "createName", "createDefault",
                               "activate"})
          => (/\ pc[ev'.caller] \in CreateStages /\ ev'.outcome = "dead"
              /\ ev'.issued = "activate" /\ tgt'[ev'.caller] = connection'
              /\ handles' = handles + 1 /\ connection' = handles')
       /\ (ev'.outcome \in Rejections \cup {"noop"})
          => ev'.issued \notin {"createOptions", "createName", "createDefault",
                                "activate"}
       /\ (\/ ev'.outcome = "live"
           \/ ev'.outcome = "ok" /\ pc[ev'.caller] = "awaitConnect")
          => (/\ connection' # Null /\ connection' \in isConnected'
              /\ ev'.op = "connect" => (ev'.done /\ ev'.ret = "true"))]_vars

\* C17: getConnection() calls connect() iff it holds no live handle on
\* entry; once connect() has returned (or was not needed) it returns its own
\* handle whenever that handle is live, and consults the registry (by name
\* when a name is set) only when the handle is absent or not live.
C17_GetConnection ==
    [][/\ (ev'.entry /\ ev'.op = "getConnection")
          => (ev'.connects = 1 <=> ~(connection # Null /\ connection \in isConnected))
       /\ (ev'.op = "getConnection" /\ ev'.done /\ pc["app"] # "connectRejected")
          => IF connection' # Null /\ connection' \in isConnected'
             THEN ev'.ret = "own" /\ ev'.issued = "none" /\ ~ev'.raised
             ELSE ev'.issued = (IF connectionName THEN "registryNamed"
                                ELSE "registryDefault")
       /\ (ev'.op = "getConnection" /\ pc["app"] = "connectRejected")
          => ev'.issued = "none"
       /\ (ev'.op = "getConnection" /\ ~ev'.done)
          => ev'.issued \notin {"registryNamed", "registryDefault"}]_vars

\* the registry is consulted by name after a failed connect
C17_Witness ==
    /\ ev.op = "getConnection" /\ ev.done /\ ev.ret = "registry"
    /\ ev.issued = "registryNamed" /\ connection = Null

\* C18: the healthCheckInterval given to the constructor is the window of
\* the cache-freshness test: a healthCheck() with a cached positive result
\* answers from the cache iff that result is no older than the given value.
C18_SuppliedIntervalUsed ==
    [][(/\ ev'.entry /\ ev'.op = "healthCheck"
        /\ unhealthyWithoutConnection
        /\ opts.healthCheckInterval # 0
        /\ lastHealthCheck # NoDate /\ lastHealthCheckResult = "true")
       => (ev'.done <=> lastHealthCheck >= now - opts.healthCheckInterval)]_vars

\* C19: two guardians that differ only in connectionRequired, given the same
\* calls and the same provider outcomes, step by step, return the same from
\* every healthCheck(), and their handle, its liveness, the cache and the
\* position of every pending call stay the same; the guardian that follows
\* can always take the step the other one led with.  The value either of
\* them returns is fixed by the opt-out flag, the cache, the liveness of the
\* handle after connect() and the query outcome: with no live connection the
\* answer is false also when connections are optional, and a healthCheck()
\* returns no value only when its connect() was rejected.
C19_ResultIgnoresRequired ==
    /\ turn = "free"
       => (/\ connectionRequired # twin.connectionRequired
           /\ ev.op = twin.ev.op
           /\ ev.op = "healthCheck"
              => (/\ ev.done = twin.ev.done
                  /\ ev.ret = twin.ev.ret
                  /\ ev.raised = twin.ev.raised)
           /\ connection = twin.connection
           /\ isConnected = twin.isConnected
           /\ handles = twin.handles
           /\ lastHealthCheck = twin.lastHealthCheck
           /\ lastHealthCheckResult = twin.lastHealthCheckResult
           /\ pc = twin.pc
           /\ tgt = twin.tgt)
    /\ turn = "swapped" => ENABLED PairNext
    /\ (ev.op = "healthCheck" /\ ev.done /\ ev.entry)
       => (ev.ret = IF ~unhealthyWithoutConnection THEN "true"
                    ELSE lastHealthCheckResult)
    /\ (ev.op = "healthCheck" /\ ev.done /\ ~ev.entry /\ ev.outcome = "none")
       => (ev.ret = "false" /\ ~(connection # Null /\ connection \in isConnected))
    /\ (ev.op = "healthCheck" /\ ev.issued = "query")
       => (connection # Null /\ connection \in isConnected)
    /\ (ev.op = "healthCheck" /\ ev.done /\ ~ev.raised /\ ev.outcome # "none")
       => (ev.ret = B(ev.outcome = "rows" /\ ev.rows >= 1))
    /\ (ev.op = "healthCheck" /\ ev.raised)
       => (ev.done /\ ev.ret = "none" /\ ev.outcome = "rejected")

\* no connection was obtainable, and the probe of both guardians, of the one
\* that requires a connection and of the one that does not, answers false
C19_Witness ==
    /\ turn = "free"
    /\ ev.op = "healthCheck" /\ ev.done /\ ~ev.entry /\ ev.outcome = "none"
    /\ ev.ret = "false" /\ twin.ev.ret = "false"
    /\ connectionRequired # twin.connectionRequired
    /\ unhealthyWithoutConnection
    /\ connection = Null /\ twin.connection = Null

\* C20: while the guardian holds a handle that was closed, a healthCheck()
\* not answered by the opt-out or by the cache, and a getConnection(), call
\* connect(), which activates the retained handle; no startup call is needed.
C20_ReconnectAfterClose ==
    [][/\ (/\ ev'.entry /\ ev'.op \in {"healthCheck", "getConnection"}
           /\ connection # Null /\ connection \notin isConnected
           /\ ~ev'.done)
          => (/\ ev'.connects = 1 /\ ev'.issued = "activate"
              /\ tgt'[ev'.caller] = connection /\ connection' = connection)
       /\ (/\ ev'.entry /\ ev'.op = "getConnection"
           /\ connection # Null /\ connection \notin isConnected)
          => ~ev'.done
       /\ (/\ ev'.entry /\ ev'.op = "healthCheck"
           /\ connection # Null /\ connection \notin isConnected
           /\ unhealthyWithoutConnection
           /\ ~(lastHealthCheckResult = "true"
                /\ lastHealthCheck >= now - healthCheckInterval))
          => ~ev'.done]_vars

\* the probe re-activated the closed handle: the one handle there is had been
\* live (a query on it cached true at time 0), was not live when this probe
\* entered, and is live again
C20_Witness ==
    /\ ev.op = "healthCheck" /\ ev.outcome = "ok"
    /\ handles = 1 /\ connection = 1 /\ isConnected = {1}
    /\ lastHealthCheckResult = "true" /\ lastHealthCheck = 0 /\ now > lastHealthCheck
====
